---- MODULE Spec2Model ----
(***************************************************************************)
(* Model of drafts-to-md.py: title extraction (parse_infile), the filename *)
(* collision resolver (dedup_paths) and the orchestration in main.         *)
(*                                                                         *)
(* Strings are sequences of one-character strings, so that formatting,     *)
(* prefix removal, trimming and concatenation are computed character by    *)
(* character as the Python code computes them.  A Python dict is a         *)
(* sequence of entries in insertion order.                                 *)
(***************************************************************************)
EXTENDS Integers, Sequences, FiniteSets, TLC

(***************************************************************************)
(* Bounds of the model.                                                    *)
(***************************************************************************)
\* largest number of notes in one batch
MaxNotes == 3
\* range(1, 1000) of _append_seqno scans 1..999; the model scans 1..MaxSeqno
MaxSeqno == 2
\* longest tail appended to the padding of a content string (title extraction)
MaxTail == 3

(***************************************************************************)
(* Program constants.                                                      *)
(***************************************************************************)
MAX_TITLE_LEN == 40

\* RE_SEP = r"[.\n]"
RE_SEP == {".", "\n"}

\* the characters str.rstrip() removes that the model's strings can hold
Whitespace == {" ", "\t", "\n"}

(***************************************************************************)
(* Strings.                                                                *)
(***************************************************************************)
DigitChars == <<"0", "1", "2", "3", "4", "5", "6", "7", "8", "9">>

Digit(d) == DigitChars[d + 1]

\* "%d"-style decimal rendering of a positive integer (f"{seqno}")
RECURSIVE Decimal(_)
Decimal(n) == IF n < 10 THEN <<Digit(n)>> ELSE Decimal(n \div 10) \o <<Digit(n % 10)>>

\* zero-padded decimal of fixed width, as strftime's %Y %m %d %H %M %S
RECURSIVE Padded(_, _)
Padded(n, width) ==
    IF width = 0 THEN <<>> ELSE Padded(n \div 10, width - 1) \o <<Digit(n % 10)>>

StartsWith(s, p) == Len(s) >= Len(p) /\ SubSeq(s, 1, Len(p)) = p

\* str.removeprefix
RemovePrefix(s, p) == IF StartsWith(s, p) THEN SubSeq(s, Len(p) + 1, Len(s)) ELSE s

\* str.rstrip() with no argument
RECURSIVE RStrip(_)
RStrip(s) ==
    IF s # <<>> /\ s[Len(s)] \in Whitespace THEN RStrip(SubSeq(s, 1, Len(s) - 1)) ELSE s

\* f"{created:%Y-%m-%d}"
FormatDate(created) ==
    Padded(created.year, 4) \o <<"-">> \o Padded(created.month, 2) \o <<"-">>
        \o Padded(created.day, 2)

\* f"{created:%Y-%m-%d %H-%M-%S}"
FormatDateTime(created) ==
    FormatDate(created) \o <<" ">> \o Padded(created.hour, 2) \o <<"-">>
        \o Padded(created.minute, 2) \o <<"-">> \o Padded(created.second, 2)

(***************************************************************************)
(* Title extraction (parse_infile).                                        *)
(***************************************************************************)
\* index of the first separator of content, 0 when there is none
RECURSIVE FirstSep(_, _)
FirstSep(content, i) ==
    IF i > Len(content) THEN 0
    ELSE IF content[i] \in RE_SEP THEN i
    ELSE FirstSep(content, i + 1)

\* re.split(RE_SEP, content, maxsplit=1)
ReSplit(content) ==
    LET i == FirstSep(content, 1)
    IN  IF i = 0 THEN <<content>>
        ELSE <<SubSeq(content, 1, i - 1), SubSeq(content, i + 1, Len(content))>>

\* TITLE_TO_FILENAME
TranslateChar(c) == IF c = "/" THEN "_" ELSE IF c = ":" THEN "-" ELSE c

\* str.translate(TITLE_TO_FILENAME)
Translate(s) == [i \in 1..Len(s) |-> TranslateChar(s[i])]

TitleShortEnoughLoose(title) == Len(title) <= MAX_TITLE_LEN

\* len(res[0]) < MAX_TITLE_LEN
TitleShortEnough(title) == Len(title) < MAX_TITLE_LEN

\* one iteration of parse_infile: the (path, content) yielded for an entry
ParseEntry(content) ==
    LET res == ReSplit(content)
    IN  IF Len(res) = 2 /\ TitleShortEnough(res[1])
        THEN [title |-> Translate(res[1]), content |-> res[2]]
        ELSE [title |-> Translate(<<>>), content |-> content]

(***************************************************************************)
(* Dicts in insertion order: sequences of [path, dups].                    *)
(***************************************************************************)
HasKey(m, k) == \E i \in 1..Len(m) : m[i].path = k

KeyIndex(m, k) == CHOOSE i \in 1..Len(m) : m[i].path = k

\* defaultdict(list): d[k].extend(ns), creating d[k] = [] at the end when missing
MapAppend(m, k, ns) ==
    IF HasKey(m, k)
    THEN [m EXCEPT ![KeyIndex(m, k)].dups = @ \o ns]
    ELSE Append(m, [path |-> k, dups |-> ns])

WorkingAppendReplacing(working, newpath, dup) ==
    IF HasKey(working, newpath)
    THEN [working EXCEPT ![KeyIndex(working, newpath)].dups = <<dup>>]
    ELSE Append(working, [path |-> newpath, dups |-> <<dup>>])

\* working[newpath].append(dup)
WorkingAppend(working, newpath, dup) == MapAppend(working, newpath, <<dup>>)

\* working[path].extend(dups)
WorkingExtend(working, path, dups) == MapAppend(working, path, dups)

(***************************************************************************)
(* The strategies of dedup_paths.                                          *)
(***************************************************************************)
dedup_schemes ==
    [datetime |-> <<"prepend_date", "prepend_datetime", "append_seqno">>,
     seqno    |-> <<"prepend_date", "append_seqno">>]

prepend_date_nospace(path, note) == FormatDate(note.created) \o path

prepend_date(path, note) == FormatDate(note.created) \o <<" ">> \o path

prepend_datetime(path, note) ==
    LET stripped == RemovePrefix(path, FormatDate(note.created))
    IN  FormatDateTime(note.created) \o <<" ">> \o stripped

\* the loop of _append_seqno from seqno on; <<>> stands for the RuntimeError
RECURSIVE SeqnoScan(_, _, _)
SeqnoScan(path, working, seqno) ==
    IF seqno > MaxSeqno THEN <<>>
    ELSE LET newpath == path \o <<" ">> \o Decimal(seqno)
         IN  IF ~HasKey(working, newpath) THEN <<newpath>>
             ELSE SeqnoScan(path, working, seqno + 1)

append_seqno_from2(path, working) == SeqnoScan(path, working, 2)

append_seqno_reuse(path, working) ==
    LET r == SeqnoScan(path, working, 1)
    IN  IF r = <<>> THEN <<path \o <<" ">> \o Decimal(MaxSeqno)>> ELSE r

\* _append_seqno: <<newpath>>, or <<>> when it raises
append_seqno(path, working) == SeqnoScan(path, working, 1)

\* uniquify_fn(path, dup).rstrip(): <<newpath>>, or <<>> when uniquify_fn raises
Uniquify(fn, path, note, working) ==
    IF fn = "prepend_date" THEN <<RStrip(prepend_date(path, note))>>
    ELSE IF fn = "prepend_datetime" THEN <<RStrip(prepend_datetime(path, note))>>
    ELSE LET r == append_seqno(path, working)
         IN  IF r = <<>> THEN <<>> ELSE <<RStrip(r[1])>>

SeqnoError == "could not dedup path"

SchemeError == "Could not dedup notes successfully, aborting"

NeedsUniquifyLoose(dups) == Len(dups) >= 1

\* len(dups) > 1
NeedsUniquify(dups) == Len(dups) > 1

\* the loop that builds result from working; <<>> after result.clear()
RECURSIVE BuildResult(_, _, _)
BuildResult(working, i, acc) ==
    IF i > Len(working) THEN acc
    ELSE IF Len(working[i].dups) > 1 THEN <<>>
    ELSE BuildResult(working, i + 1,
                     Append(acc, [path |-> working[i].path, note |-> working[i].dups[1]]))

(***************************************************************************)
(* Paths of the output documents (main).                                   *)
(***************************************************************************)
\* args.outdir
outdir == <<"o", "u", "t">>

\* index of the last "." of name, 0 when there is none (str.rfind)
RECURSIVE RFindDot(_, _)
RFindDot(name, i) ==
    IF i = 0 THEN 0 ELSE IF name[i] = "." THEN i ELSE RFindDot(name, i - 1)

\* PurePath.with_suffix('.md') on the final component of a path
WithSuffixMd(name) ==
    LET i == RFindDot(name, Len(name))
        stem == IF 1 < i /\ i < Len(name) THEN SubSeq(name, 1, i - 1) ELSE name
    IN  stem \o <<".", "m", "d">>

\* (args.outdir / p).with_suffix('.md'); joining an empty p leaves outdir itself
ToPath(p) ==
    IF p = <<>> THEN WithSuffixMd(outdir) ELSE outdir \o <<"/">> \o WithSuffixMd(p)

\* dict[k] = v of a plain dict: a later value replaces an earlier one in place
DictPut(d, k, v) ==
    IF HasKey(d, k)
    THEN [d EXCEPT ![KeyIndex(d, k)].note = v]
    ELSE Append(d, [path |-> k, note |-> v])

\* {(args.outdir / p).with_suffix('.md'): n for p, n in result.items()}
RECURSIVE PathDict(_, _, _)
PathDict(result, i, d) ==
    IF i > Len(result) THEN d
    ELSE PathDict(result, i + 1, DictPut(d, ToPath(result[i].path), result[i].note))

\* [p for p in notes if p.exists()]
RECURSIVE Existing(_, _, _)
Existing(d, fs, i) ==
    IF i > Len(d) THEN <<>>
    ELSE (IF d[i].path \in fs THEN <<d[i].path>> ELSE <<>>) \o Existing(d, fs, i + 1)

NoNotesError == "Aborting, no notes read from input"

OverwriteError == "Aborting, use '--overwrite' to overwrite existing file"

WriteAllowedAlways(allow, found) == TRUE

\* the overwrite check of main passes: args.overwrite, or nothing exists yet
WriteAllowed(allow, found) == allow \/ found = <<>>

(***************************************************************************)
(* Inputs.                                                                 *)
(***************************************************************************)
Stamp(d, s) ==
    [year |-> 2023, month |-> 1, day |-> d, hour |-> 10, minute |-> 0, second |-> s]

\* two creation times on the same day, and one on the next day
Createds == {Stamp(1, 0), Stamp(1, 1), Stamp(2, 0)}

Day1 == FormatDate(Stamp(1, 0))

\* candidate keys: a plain title, no title, and titles that look like keys
\* the strategies produce
Titles ==
    {<<"A">>, <<>>, Day1 \o <<" ", "A">>, Day1 \o <<" ", "A", " ", "1">>}

MakeNote(i, created, content) == [id |-> i, created |-> created, content |-> content]

\* the grouping loop of main over (path, note) pairs: notes_dups[path].append(note)
RECURSIVE GroupBy(_, _, _)
GroupBy(pairs, i, grouping) ==
    IF i > Len(pairs) THEN grouping
    ELSE GroupBy(pairs, i + 1,
                 MapAppend(grouping, pairs[i][1], <<MakeNote(i, pairs[i][2], <<>>)>>))

\* main calls dedup_paths only when n_notes is not 0, so a batch has a note
Batches == UNION {[1..n -> Titles \X Createds] : n \in 1..MaxNotes}

(***************************************************************************)
(* State.                                                                  *)
(***************************************************************************)
VARIABLES
    heap,        \* the two dict objects: A the caller's notes_dups, B the local defaultdict
    notesRef,    \* the object the name `notes` of dedup_paths is bound to
    workingRef,  \* the object the name `working` is bound to
    scheme,      \* dedup_scheme
    fi,          \* position of uniquify_fn in dedup_schemes[dedup_scheme]
    gi,          \* position of (path, dups) in notes.items()
    di,          \* position of dup in dups
    result,      \* the result dict of dedup_paths
    err,         \* message of the RuntimeError dedup_paths raised
    dpc,         \* control position of dedup_paths
    applied,     \* history: the applications of uniquify_fn, in order
    input,       \* history: the grouping as it was when dedup_paths was called
    mpc,         \* control position of main
    infile,      \* the entries json.load(infile) returns
    idx,         \* number of entries parse_infile has yielded
    n_notes,     \* n_notes of main
    overwrite,   \* args.overwrite
    notes_out,   \* the dict `notes` of main (Path -> Note)
    existing,    \* the list `existing` of main
    files,       \* the paths that exist in the file system
    written,     \* history: the paths write_note was called with, in order
    widx,        \* position of the write loop
    merr         \* message of the RuntimeError that ended main

dvars == <<heap, notesRef, workingRef, scheme, fi, gi, di, result, err, dpc, applied, input>>

mvars == <<mpc, infile, idx, n_notes, overwrite, notes_out, existing, files, written, widx, merr>>

vars == <<dvars, mvars>>

Notes == heap[notesRef]

Working == heap[workingRef]

Fns == dedup_schemes[scheme]

NoError == [msg |-> "", path |-> <<>>]

\* history: the numbers n of 1..MaxSeqno whose key "<path> <n>" working already holds
TakenSeqnos(path, working) ==
    {n \in 1..MaxSeqno : HasKey(working, path \o <<" ">> \o Decimal(n))}

(***************************************************************************)
(* dedup_paths.                                                            *)
(***************************************************************************)
\* state right after the call: working is a fresh defaultdict, the first strategy is next
DedupEntry(grouping) ==
    /\ heap' = [A |-> grouping, B |-> <<>>]
    /\ notesRef' = "A"
    /\ workingRef' = "B"
    /\ fi' = 1
    /\ gi' = 1
    /\ di' = 1
    /\ result' = <<>>
    /\ err' = ""
    /\ dpc' = "loop"
    /\ applied' = <<>>
    /\ input' = grouping

\* advance the two nested for loops by one dup
NextDup ==
    IF di < Len(Notes[gi].dups)
    THEN gi' = gi /\ di' = di + 1
    ELSE gi' = gi + 1 /\ di' = 1

InGroup == dpc = "loop" /\ gi <= Len(Notes)

\* newpath = uniquify_fn(path, dup).rstrip(); working[newpath].append(dup)
ApplyUniquify ==
    /\ InGroup
    /\ NeedsUniquify(Notes[gi].dups)
    /\ LET path == Notes[gi].path
           dup == Notes[gi].dups[di]
           r == Uniquify(Fns[fi], path, dup, Working)
       IN  /\ r # <<>>
           /\ heap' = [heap EXCEPT ![workingRef] = WorkingAppend(@, r[1], dup)]
           /\ applied' = Append(applied,
                  [fn |-> Fns[fi], path |-> path, note |-> dup, newpath |-> r[1],
                   round |-> fi, taken |-> TakenSeqnos(path, Working)])
    /\ NextDup
    /\ UNCHANGED <<notesRef, workingRef, scheme, fi, result, err, dpc, input, mvars>>

\* _append_seqno finds no free number: raise RuntimeError("could not dedup path: ...")
RaiseSeqno ==
    /\ InGroup
    /\ NeedsUniquify(Notes[gi].dups)
    /\ Uniquify(Fns[fi], Notes[gi].path, Notes[gi].dups[di], Working) = <<>>
    /\ dpc' = "raised"
    /\ err' = SeqnoError
    /\ UNCHANGED <<heap, notesRef, workingRef, scheme, fi, gi, di, result, applied, input,
                   mvars>>

\* working[path].extend(dups)
PassThrough ==
    /\ InGroup
    /\ ~NeedsUniquify(Notes[gi].dups)
    /\ heap' = [heap EXCEPT ![workingRef] = WorkingExtend(@, Notes[gi].path, Notes[gi].dups)]
    /\ gi' = gi + 1
    /\ di' = 1
    /\ UNCHANGED <<notesRef, workingRef, scheme, fi, result, err, dpc, applied, input, mvars>>

\* build result from working; `if result: return result`
Collapse ==
    /\ dpc = "loop"
    /\ gi > Len(Notes)
    /\ result' = BuildResult(Working, 1, <<>>)
    /\ dpc' = IF result' # <<>> THEN "returned" ELSE "swap"
    /\ UNCHANGED <<heap, notesRef, workingRef, scheme, fi, gi, di, err, applied, input, mvars>>

\* notes, working = working, notes; working.clear(); then the next uniquify_fn
SwapAndClear ==
    /\ dpc = "swap"
    /\ notesRef' = workingRef
    /\ workingRef' = notesRef
    /\ heap' = [heap EXCEPT ![notesRef] = <<>>]
    /\ fi' = fi + 1
    /\ gi' = 1
    /\ di' = 1
    /\ dpc' = IF fi + 1 > Len(Fns) THEN "exhausted" ELSE "loop"
    /\ UNCHANGED <<scheme, result, err, applied, input, mvars>>

\* raise RuntimeError("Could not dedup notes successfully, aborting")
RaiseSchemeExhausted ==
    /\ dpc = "exhausted"
    /\ dpc' = "raised"
    /\ err' = SchemeError
    /\ UNCHANGED <<heap, notesRef, workingRef, scheme, fi, gi, di, result, applied, input,
                   mvars>>

DedupNext ==
    \/ ApplyUniquify
    \/ RaiseSeqno
    \/ PassThrough
    \/ Collapse
    \/ SwapAndClear
    \/ RaiseSchemeExhausted

\* dedup_paths called on any grouping of 1 to MaxNotes notes
InitDedup ==
    /\ \E pairs \in Batches :
        /\ heap = [A |-> GroupBy(pairs, 1, <<>>), B |-> <<>>]
        /\ input = GroupBy(pairs, 1, <<>>)
    /\ scheme \in DOMAIN dedup_schemes
    /\ notesRef = "A"
    /\ workingRef = "B"
    /\ fi = 1
    /\ gi = 1
    /\ di = 1
    /\ result = <<>>
    /\ err = ""
    /\ dpc = "loop"
    /\ applied = <<>>
    /\ mpc = "direct"
    /\ infile = <<>>
    /\ idx = 0
    /\ n_notes = 0
    /\ overwrite = FALSE
    /\ notes_out = <<>>
    /\ existing = <<>>
    /\ files = {}
    /\ written = <<>>
    /\ widx = 1
    /\ merr = NoError

Spec == InitDedup /\ [][DedupNext]_vars

(***************************************************************************)
(* main.                                                                   *)
(***************************************************************************)
\* for path, note in parse_infile(args.infile): n_notes += 1; notes_dups[path].append(note)
ParseNext ==
    /\ mpc = "load"
    /\ idx < Len(infile)
    /\ LET entry == infile[idx + 1]
           parsed == ParseEntry(entry.content)
       IN  heap' = [heap EXCEPT !.A =
                       MapAppend(@, parsed.title,
                                 <<MakeNote(idx + 1, entry.created, parsed.content)>>)]
    /\ idx' = idx + 1
    /\ n_notes' = n_notes + 1
    /\ UNCHANGED <<notesRef, workingRef, scheme, fi, gi, di, result, err, dpc, applied, input>>
    /\ UNCHANGED <<mpc, infile, overwrite, notes_out, existing, files, written, widx, merr>>

\* if not n_notes: raise RuntimeError('Aborting, no notes read from input')
AbortNoNotes ==
    /\ mpc = "load"
    /\ idx = Len(infile)
    /\ n_notes = 0
    /\ mpc' = "aborted"
    /\ merr' = [msg |-> NoNotesError, path |-> <<>>]
    /\ UNCHANGED <<dvars, infile, idx, n_notes, overwrite, notes_out, existing, files, written,
                   widx>>

\* dedup_paths(notes_dups, args.dedup) is called
CallDedup ==
    /\ mpc = "load"
    /\ idx = Len(infile)
    /\ n_notes # 0
    /\ mpc' = "dedup"
    /\ DedupEntry(heap.A)
    /\ UNCHANGED <<scheme, infile, idx, n_notes, overwrite, notes_out, existing, files, written,
                   widx, merr>>

\* the RuntimeError of dedup_paths ends main
DedupFailed ==
    /\ mpc = "dedup"
    /\ dpc = "raised"
    /\ mpc' = "aborted"
    /\ merr' = [msg |-> err, path |-> <<>>]
    /\ UNCHANGED <<dvars, infile, idx, n_notes, overwrite, notes_out, existing, files, written,
                   widx>>

\* notes = {(args.outdir / p).with_suffix('.md'): n for p, n in dedup_paths(...).items()}
BuildPaths ==
    /\ mpc = "dedup"
    /\ dpc = "returned"
    /\ notes_out' = PathDict(result, 1, <<>>)
    /\ mpc' = "check"
    /\ UNCHANGED <<dvars, infile, idx, n_notes, overwrite, existing, files, written, widx, merr>>

\* if not args.overwrite: existing = [...]; if existing: raise RuntimeError(... existing[0])
CheckOverwrite ==
    /\ mpc = "check"
    /\ LET found == IF overwrite THEN <<>> ELSE Existing(notes_out, files, 1)
       IN  /\ existing' = found
           /\ IF WriteAllowed(overwrite, found)
              THEN mpc' = "write" /\ merr' = merr
              ELSE /\ mpc' = "aborted"
                   /\ merr' = [msg |-> OverwriteError, path |-> found[1]]
    /\ UNCHANGED <<dvars, infile, idx, n_notes, overwrite, notes_out, files, written, widx>>

\* for path, note in notes.items(): write_note(path, note)
WriteNote ==
    /\ mpc = "write"
    /\ widx <= Len(notes_out)
    /\ files' = files \cup {notes_out[widx].path}
    /\ written' = Append(written, notes_out[widx].path)
    /\ widx' = widx + 1
    /\ mpc' = IF widx = Len(notes_out) THEN "done" ELSE "write"
    /\ UNCHANGED <<dvars, infile, idx, n_notes, overwrite, notes_out, existing, merr>>

MainNext ==
    \/ ParseNext
    \/ AbortNoNotes
    \/ CallDedup
    \/ (mpc = "dedup" /\ DedupNext)
    \/ DedupFailed
    \/ BuildPaths
    \/ CheckOverwrite
    \/ WriteNote

\* contents of the entries of main's input: one with a title, one without
MainContents == {<<"A", ".", "x">>, <<"x">>}

MainCreateds == {Stamp(1, 0), Stamp(2, 0)}

MainEntries == [content : MainContents, created : MainCreateds]

\* documents that may exist before the run
MainFiles ==
    {ToPath(prepend_date(<<"A">>, [created |-> c])) : c \in MainCreateds}

IdleDedup ==
    /\ heap = [A |-> <<>>, B |-> <<>>]
    /\ notesRef = "A"
    /\ workingRef = "B"
    /\ fi = 1
    /\ gi = 1
    /\ di = 1
    /\ result = <<>>
    /\ err = ""
    /\ dpc = "idle"
    /\ applied = <<>>
    /\ input = <<>>

InitMain ==
    /\ IdleDedup
    /\ scheme \in DOMAIN dedup_schemes
    /\ mpc = "load"
    /\ infile \in UNION {[1..n -> MainEntries] : n \in 0..MaxNotes}
    /\ idx = 0
    /\ n_notes = 0
    /\ overwrite \in BOOLEAN
    /\ notes_out = <<>>
    /\ existing = <<>>
    /\ files \in SUBSET MainFiles
    /\ written = <<>>
    /\ widx = 1
    /\ merr = NoError

SpecMain == InitMain /\ [][MainNext]_vars

(***************************************************************************)
(* Title extraction on its own: parse_infile over one entry.               *)
(***************************************************************************)
TitleChars == {"a", "/", ":", ".", "\n", " "}

Tails == UNION {[1..n -> TitleChars] : n \in 0..MaxTail}

Pad(n) == [i \in 1..n |-> "a"]

\* contents whose first separator lies around the title length limit, or at the start
TitleContents ==
    {Pad(n) \o t : n \in {0, MAX_TITLE_LEN - 2, MAX_TITLE_LEN - 1, MAX_TITLE_LEN}, t \in Tails}

InitTitle ==
    /\ IdleDedup
    /\ scheme = "datetime"
    /\ mpc = "load"
    /\ \E c \in TitleContents : infile = <<[content |-> c, created |-> Stamp(1, 0)]>>
    /\ idx = 0
    /\ n_notes = 0
    /\ overwrite = FALSE
    /\ notes_out = <<>>
    /\ existing = <<>>
    /\ files = {}
    /\ written = <<>>
    /\ widx = 1
    /\ merr = NoError

SpecTitle == InitTitle /\ [][ParseNext]_vars

(***************************************************************************)
(* Properties of dedup_paths.                                              *)
(***************************************************************************)
\* the notes of a grouping, group after group
RECURSIVE AllNotes(_, _)
AllNotes(grouping, i) ==
    IF i > Len(grouping) THEN <<>> ELSE grouping[i].dups \o AllNotes(grouping, i + 1)

InputNotes == AllNotes(input, 1)

SameDay(a, b) == a.year = b.year /\ a.month = b.month /\ a.day = b.day

\* some group of the input holds two notes created at the same second
InputHasTwins ==
    \E g \in 1..Len(input) : \E i, j \in 1..Len(input[g].dups) :
        i # j /\ input[g].dups[i].created = input[g].dups[j].created

\* C1: whenever dedup_paths returns, result has as many keys as the input has
\* notes, every input note (by occurrence) sits under exactly one key, every note
\* of result is an input note, and no key occurs twice.
C1_Bijection ==
    dpc = "returned" =>
        /\ Len(result) = Len(InputNotes)
        /\ \A j \in 1..Len(InputNotes) :
               Cardinality({i \in 1..Len(result) : result[i].note = InputNotes[j]}) = 1
        /\ \A i, k \in 1..Len(result) : i # k => result[i].path # result[k].path

\* a return after strategies ran, for an input with two notes of equal field values
C1_Witness ==
    /\ dpc = "returned"
    /\ InputHasTwins
    /\ fi = Len(Fns)
    /\ Len(result) = MaxNotes

AllSingle(grouping) == \A g \in 1..Len(grouping) : Len(grouping[g].dups) = 1

\* the grouping itself as a key -> Note mapping
AsResult(grouping) ==
    [g \in 1..Len(grouping) |-> [path |-> grouping[g].path, note |-> grouping[g].dups[1]]]

\* what C2 promises of a run on a grouping of single-Note groups
PassesUnchanged ==
    /\ applied = <<>>
    /\ fi = 1
    /\ dpc \in {"loop", "returned"}
    /\ dpc = "returned" => result = AsResult(input)

\* C2: for every grouping whose groups all hold one Note, dedup_paths applies no
\* strategy, stays in its first round and returns the grouping's own keys, each
\* with the single Note of its group.
C2_PassesUnchanged == AllSingle(input) => PassesUnchanged

C2_Witness ==
    /\ dpc = "returned"
    /\ Len(input) = MaxNotes
    /\ AllSingle(input)

\* every shared candidate key has Notes of pairwise distinct creation dates
DistinctDates ==
    \A g \in 1..Len(input) : \A i, j \in 1..Len(input[g].dups) :
        i # j => ~SameDay(input[g].dups[i].created, input[g].dups[j].created)

\* "<YYYY-MM-DD of created> <key>", trailing whitespace trimmed
DatedKey(key, note) == RStrip(FormatDate(note.created) \o <<" ">> \o key)

\* the keys C3 promises: dated for the Notes of a shared key, unchanged otherwise
PromisedKey(g, i) ==
    IF Len(input[g].dups) > 1 THEN DatedKey(input[g].path, input[g].dups[i])
    ELSE input[g].path

Slots == {<<g, i>> \in (1..Len(input)) \X (1..MaxNotes + 1) : i <= Len(input[g].dups)}

\* what C3 promises of a run
DateOnlyRun ==
    /\ fi = 1
    /\ dpc \in {"loop", "returned"}
    /\ \A a \in 1..Len(applied) : applied[a].fn = "prepend_date"
    /\ dpc = "returned" =>
           \A s \in Slots :
               \E r \in 1..Len(result) :
                   /\ result[r].note = input[s[1]].dups[s[2]]
                   /\ result[r].path = PromisedKey(s[1], s[2])

\* C3 as stated: when the Notes of every shared candidate key have pairwise
\* distinct creation dates, dedup_paths succeeds in the first round with
\* prepend-date only, each Note of a shared key under its dated key and every
\* other Note under its candidate key.
C3_Original == DistinctDates => DateOnlyRun

\* no two Notes are promised the same key
NoKeyClash == \A s, t \in Slots : s # t => PromisedKey(s[1], s[2]) # PromisedKey(t[1], t[2])

\* C3, amended: when the Notes of every shared candidate key have pairwise
\* distinct creation dates and the keys of the first round (dated and trimmed for
\* the Notes of a shared key, unchanged for the others) are pairwise distinct,
\* dedup_paths succeeds in the first round with prepend-date only and returns
\* exactly those keys.
C3_DateOnlyWhenNoClash == (DistinctDates /\ NoKeyClash) => DateOnlyRun

C3_Witness ==
    /\ dpc = "returned"
    /\ DistinctDates
    /\ NoKeyClash
    /\ \E g \in 1..Len(input) : Len(input[g].dups) > 1
    /\ \E g \in 1..Len(input) : Len(input[g].dups) = 1

\* the applications of append-sequence-number
SeqnoApps == {a \in 1..Len(applied) : applied[a].fn = "append_seqno"}

\* first application to the group that application a belongs to
GroupStart(a) ==
    CHOOSE b \in SeqnoApps :
        /\ applied[b].path = applied[a].path
        /\ \A c \in SeqnoApps : applied[c].path = applied[a].path => b <= c

Suffixed(path, n) == path \o <<" ">> \o Decimal(n)

\* every application returns "<key> <n>" for the smallest n of 1..MaxSeqno whose
\* key the working mapping did not hold yet
SmallestUnused ==
    \A a \in SeqnoApps :
        \E n \in (1..MaxSeqno) \ applied[a].taken :
            /\ applied[a].newpath = Suffixed(applied[a].path, n)
            /\ \A k \in 1..(n - 1) : k \in applied[a].taken

\* the Notes of a group get 1, 2, ..., m in input order
NumberedFromOne(a) == applied[a].newpath = Suffixed(applied[a].path, a - GroupStart(a) + 1)

\* C4 as stated: append-sequence-number returns the smallest unused number, and so
\* every colliding group that reaches it gets the suffixes 1, 2, ..., m in input
\* order.
C4_Original == SmallestUnused /\ \A a \in SeqnoApps : NumberedFromOne(a)

\* C4, amended: append-sequence-number returns "<key> <n>" for the smallest n in
\* the range whose key the working mapping of the round does not hold yet, and so
\* a colliding group gets the suffixes 1, 2, ..., m in input order when the
\* working mapping holds no key "<key> <j>" at the time the group is reached.
C4_SmallestUnused ==
    /\ SmallestUnused
    /\ \A a \in SeqnoApps : applied[GroupStart(a)].taken = {} => NumberedFromOne(a)

\* a group of MaxSeqno Notes of equal key and timestamp got its numbers under the
\* datetime scheme, after prepend-date and prepend-datetime
C4_Witness ==
    /\ dpc = "returned"
    /\ scheme = "datetime"
    /\ \E a \in SeqnoApps :
           /\ a - GroupStart(a) + 1 = MaxSeqno
           /\ applied[GroupStart(a)].taken = {}

\* a Note of a colliding group is next, under append-sequence-number, and every
\* key "<key> 1" .. "<key> MaxSeqno" is in the working mapping
OutOfNumbers ==
    /\ InGroup
    /\ Len(Notes[gi].dups) > 1
    /\ Fns[fi] = "append_seqno"
    /\ TakenSeqnos(Notes[gi].path, Working) = 1..MaxSeqno

\* C5: when append-sequence-number finds every number of its range taken,
\* dedup_paths raises "could not dedup path", which is not the message of scheme
\* exhaustion, and returns no mapping; it raises that error in no other case.
C5_SeqnoExhaustion ==
    /\ [][OutOfNumbers => (dpc' = "raised" /\ err' = SeqnoError /\ result' = <<>>)]_vars
    /\ [][(err' = SeqnoError /\ err # SeqnoError) => OutOfNumbers]_vars
    /\ [](err = SeqnoError => (dpc = "raised" /\ result = <<>> /\ err # SchemeError))
    /\ [](dpc = "raised" => err \in {SeqnoError, SchemeError})

\* the Note after the MaxSeqno-th of one group raised the error
C5_Witness ==
    /\ dpc = "raised"
    /\ err = SeqnoError
    /\ di = MaxSeqno + 1
    /\ \E a \in SeqnoApps : applied[a].path = Notes[gi].path

\* application b is prepend-datetime on the key that application a, prepend-date,
\* made for the same Note
Upgrades(a, b) ==
    /\ applied[a].fn = "prepend_date"
    /\ applied[b].fn = "prepend_datetime"
    /\ applied[a].note = applied[b].note
    /\ applied[a].newpath = applied[b].path

\* C8: prepend-datetime applied to the trimmed result of prepend-date(k, n) gives
\* "<YYYY-MM-DD HH-MM-SS of n.created> <k>" (trimmed), with one space between the
\* timestamp and k.
C8_UpgradesPrefix ==
    \A a, b \in 1..Len(applied) :
        Upgrades(a, b) =>
            applied[b].newpath =
                RStrip(FormatDateTime(applied[b].note.created) \o <<" ">> \o applied[a].path)

\* C9: for a non-empty grouping, dedup_paths never raises the scheme-exhaustion
\* error; when no application of append-sequence-number runs out of numbers it
\* returns a mapping.
C9_NoSchemeExhaustion == input # <<>> => (err # SchemeError /\ dpc # "exhausted")

\* C10: the object passed as notes holds the caller's grouping during and after the
\* call.
C10_InputUnchanged == dpc # "idle" => heap.A = input

(***************************************************************************)
(* Properties of parse_infile and main.                                    *)
(***************************************************************************)
\* position i of content holds its first separator
IsFirstSep(content, i) ==
    /\ content[i] \in {".", "\n"}
    /\ \A j \in 1..(i - 1) : content[j] \notin {".", "\n"}

\* key is prefix with "/" replaced by "_" and ":" by "-", nothing else changed
Substituted(prefix, key) ==
    /\ Len(key) = Len(prefix)
    /\ \A j \in 1..Len(prefix) :
           /\ prefix[j] = "/" => key[j] = "_"
           /\ prefix[j] = ":" => key[j] = "-"
           /\ prefix[j] \notin {"/", ":"} => key[j] = prefix[j]

\* C6: when content has a separator and fewer than 40 characters before the first
\* one, the candidate key is that prefix with "/" and ":" substituted and the
\* Note's content is the text after that separator; otherwise the key is empty and
\* the content is left as it was.
C6_TitleExtraction ==
    idx = 1 =>
        LET content == infile[1].content
            key == heap.A[1].path
            body == heap.A[1].dups[1].content
        IN  /\ Len(heap.A) = 1
            /\ Len(heap.A[1].dups) = 1
            /\ IF \E i \in 1..Len(content) : IsFirstSep(content, i) /\ i - 1 < MAX_TITLE_LEN
               THEN \E i \in 1..Len(content) :
                       /\ IsFirstSep(content, i)
                       /\ Substituted(SubSeq(content, 1, i - 1), key)
                       /\ body = SubSeq(content, i + 1, Len(content))
               ELSE key = <<>> /\ body = content

\* a title of the greatest length that is still split off, ending in a
\* substituted character
C6_Witness ==
    /\ idx = 1
    /\ Len(heap.A[1].path) = MAX_TITLE_LEN - 1
    /\ infile[1].content[MAX_TITLE_LEN - 1] = "/"
    /\ heap.A[1].path[MAX_TITLE_LEN - 1] = "_"

\* C7: write_note is called only after loading, dedup_paths and the overwrite
\* check have succeeded.  When overwriting is not permitted and a target exists,
\* main aborts naming the first such path in the order of the output mapping, and
\* nothing is written; nothing is written either when there are no records or when
\* dedup_paths raises.
C7_WritesLast ==
    /\ (written # <<>> \/ mpc \in {"write", "done"}) =>
           /\ idx = Len(infile)
           /\ n_notes > 0
           /\ dpc = "returned"
           /\ overwrite \/ existing = <<>>
    /\ (mpc = "write" /\ written = <<>> /\ ~overwrite) =>
           \A i \in 1..Len(notes_out) : notes_out[i].path \notin files
    /\ mpc = "aborted" => written = <<>>
    /\ (mpc = "aborted" /\ merr.msg = OverwriteError) =>
           /\ ~overwrite
           /\ \E i \in 1..Len(notes_out) :
                  /\ notes_out[i].path = merr.path
                  /\ merr.path \in files
                  /\ \A j \in 1..(i - 1) : notes_out[j].path \notin files
    /\ (Len(infile) = 0 \/ dpc = "raised") => written = <<>>

\* the run aborted on the overwrite check with two targets already there
C7_Witness ==
    /\ mpc = "aborted"
    /\ merr.msg = OverwriteError
    /\ Len(existing) = 2
    /\ merr.path = notes_out[1].path

====
